---- MODULE Spec2Model ----
(***************************************************************************)
(* Model of the offline synchronisation queue of the attendance kiosk     *)
(* (src/services/OfflineSyncManager.js).  The JavaScript runtime is       *)
(* single-threaded: every action below is one synchronous segment of the  *)
(* code, from the resumption of an await (or an external call) up to the   *)
(* next await.  Queue items are heap objects shared between the live       *)
(* queue and the snapshot of a drain pass, so items are referenced by an   *)
(* object identity (uid) and their fields live in heap.                    *)
(***************************************************************************)
EXTENDS Integers, Sequences, FiniteSets, TLC

\* ---------------------------------------------------------------- bounds
MaxEvents == 2       \* addToQueue, clearQueue and removeQueueItem calls and rejected
                     \* storage writes in one behaviour
NumIds == 2          \* distinct values Date.now() + Math.random() can take
MaxRestarts == 1     \* application restarts in one behaviour
MaxTime == 2         \* largest time (in milliseconds) of a record's timestamp
NumListeners == 3    \* listener functions that subscribe to the manager

\* ------------------------------------------------------ program constants
maxRetries == 3

Uids == 1..MaxEvents
IdValues == 1..NumIds

\* JavaScript values of state.isConnected / state.isInternetReachable
JsBool == {"true", "false"}
JsBoolOrNull == {"true", "false", "null"}

\* outcome of one fetch + response.json() of syncItem
Responses == {"ok", "ok_badjson", "http_error", "network_error"}

NoItem == [id |-> 0, operation |-> "none", retries |-> 0, status |-> "none", lastError |-> "none"]
NoStored == [present |-> FALSE, val |-> <<>>]
NoResults == [total |-> 0, succeeded |-> 0, failed |-> 0, errors |-> <<>>]

VARIABLES
  isOnline,        \* this.isOnline (a JavaScript value: true, false or null)
  syncQueue,       \* this.syncQueue: sequence of object references
  heap,            \* fields of the queue item objects
  syncInProgress,  \* this.syncInProgress
  listenerOn,      \* the NetInfo listener of initialize() is registered
  pcInit,          \* position of initialize(): loading, probing, done, failed
  passPc,          \* position of the running syncAll pass: idle, fetch, saveQueue, status
  itemsToSync,     \* snapshot of the running pass
  idx,             \* index in itemsToSync of the item being delivered
  results,         \* results object of the running pass
  writes,          \* AsyncStorage.setItem calls issued and not yet resolved (FIFO)
  storedQueue,     \* AsyncStorage slot QUEUE_KEY
  storedStatus,    \* AsyncStorage slot SYNC_STATUS_KEY
  nextUid,         \* next object identity
  nRestarts,       \* restarts so far
  nAdmin,          \* history: clearQueue / removeQueueItem calls so far
  nWriteFail,      \* history: rejected storage writes so far
  nActive,         \* history: syncAll invocations past the guard and not yet ended
  attempts,        \* history: delivery attempts started per item in this run
  fate,            \* history: none, live, delivered, evicted, removed, gone
  returned,        \* history: addToQueue has returned for the item
  passLog,         \* history: <<uid, outcome>> of the attempts of the running pass
  addedDuring,     \* history: items enqueued while the running pass was active
  lastReturn,      \* history: what the syncAll/forceSync call of the last step returned
  emitted,         \* history: the events notifyListeners delivered in the last step
  lastDrain,       \* history: the last drain event delivered (syncStarted / syncCompleted)
  offlineWaiting,  \* history: queued items whose addToQueue call was made while offline
                   \* and for which no delivery attempt has been started yet
  savedItems,      \* history: the queue items as they were at the saveQueue() call whose
                   \* write reached the slot last
  readLost,        \* history: the read of loadQueue() in this run failed on a slot
                   \* holding items
  conflict,        \* the resolveConflict call: its arguments and what it returned
  registry,        \* this.listeners and the notifyListeners call in progress
  attendance,      \* recordAttendance of the attendance screen: its direct delivery
  acked            \* the items whose request the server has answered with a 2xx status

progVars == <<isOnline, syncQueue, heap, syncInProgress, listenerOn, pcInit, passPc,
              itemsToSync, idx, results, writes, storedQueue, storedStatus, nextUid>>
histVars == <<nRestarts, nAdmin, nWriteFail, nActive, attempts, fate, returned, passLog,
              addedDuring, lastReturn, emitted, lastDrain, offlineWaiting, savedItems,
              readLost>>
vars == <<isOnline, syncQueue, heap, syncInProgress, listenerOn, pcInit, passPc,
          itemsToSync, idx, results, writes, storedQueue, storedStatus, nextUid,
          nRestarts, nAdmin, nWriteFail, nActive, attempts, fate, returned, passLog,
          addedDuring, lastReturn, emitted, lastDrain, offlineWaiting, savedItems, readLost,
          conflict, registry, attendance, acked>>

\* ---------------------------------------------------------------- helpers
Truthy(v) == v = "true"

\* state.isConnected && state.isInternetReachable
JsAnd(a, b) == IF Truthy(a) THEN b ELSE a

NoCall == [kind |-> "none", reason |-> "none", via |-> "none"]

RECURSIVE FilterOutId(_, _, _)
\* this.syncQueue.filter(i => i.id !== id)
FilterOutId(q, h, id) ==
  IF q = <<>> THEN <<>>
  ELSE IF h[Head(q)].id # id
       THEN <<Head(q)>> \o FilterOutId(Tail(q), h, id)
       ELSE FilterOutId(Tail(q), h, id)

\* a serialisation that leaves out the lastError field
Stringify_NoLastError(q, h) ==
  [i \in 1..Len(q) |->
     [uid |-> q[i], id |-> h[q[i]].id, operation |-> h[q[i]].operation,
      retries |-> h[q[i]].retries, status |-> h[q[i]].status, lastError |-> "none"]]

\* JSON.stringify(this.syncQueue): the field values of the referenced objects
Stringify(q, h) ==
  [i \in 1..Len(q) |->
     [uid |-> q[i], id |-> h[q[i]].id, operation |-> h[q[i]].operation,
      retries |-> h[q[i]].retries, status |-> h[q[i]].status,
      lastError |-> h[q[i]].lastError]]

\* JSON.parse(stored): fresh objects carrying the stored field values
ParseQueue(s) == [i \in 1..Len(s) |-> s[i].uid]
ParseHeap(s) ==
  [u \in Uids |->
     IF \E i \in 1..Len(s) : s[i].uid = u
     THEN LET i == CHOOSE j \in 1..Len(s) : s[j].uid = u
          IN [id |-> s[i].id, operation |-> s[i].operation, retries |-> s[i].retries,
              status |-> s[i].status, lastError |-> s[i].lastError]
     ELSE NoItem]

Range(s) == {s[i] : i \in 1..Len(s)}

\* ------------------------------------------------------------ syncAll pass
\* a guard that forgets the busy flag: !this.isOnline
SyncRejected_NoBusy(online, inProgress) == ~Truthy(online)

\* a guard that forgets the connectivity: this.syncInProgress
SyncRejected_NoOffline(online, inProgress) == inProgress

\* the guard of syncAll: !this.isOnline || this.syncInProgress
SyncRejected(online, inProgress) == ~Truthy(online) \/ inProgress

\* getQueueStatus() on queue q with this.syncInProgress = inProgress
GetQueueStatus(q, h, inProgress) ==
  [total |-> Len(q),
   pending |-> Cardinality({i \in 1..Len(q) : h[q[i]].status = "pending"}),
   failed |-> Cardinality({i \in 1..Len(q) : h[q[i]].status = "failed"}),
   syncing |-> inProgress]

\* the events of notifyListeners; syncing is getQueueStatus().syncing as a
\* listener reads it while the event is delivered
OnlineEvent(v, st) == [type |-> "online", online |-> v, results |-> NoResults, syncing |-> st.syncing]
StartedEvent(st) == [type |-> "syncStarted", online |-> "none", results |-> NoResults,
                     syncing |-> st.syncing]
CompletedEvent(res, st) == [type |-> "syncCompleted", online |-> "none", results |-> res,
                            syncing |-> st.syncing]

\* the two reasons exchanged
RejectReason_Swapped(inProgress) == IF inProgress THEN "offline" ELSE "sync_in_progress"

\* this.syncInProgress ? 'sync_in_progress' : 'offline'
RejectReason(inProgress) == IF inProgress THEN "sync_in_progress" ELSE "offline"

\* a test that forgets the items to retry: item.status === 'pending'
Eligible_PendingOnly(it) == it.status = "pending"

\* item.status === 'pending' || (item.status === 'failed' && item.retries < this.maxRetries)
Eligible(it) == it.status = "pending" \/ (it.status = "failed" /\ it.retries < maxRetries)

\* response.ok of the response of fetch: the HTTP status is 2xx
ResponseOk(resp) == resp \in {"ok", "ok_badjson"}

\* syncItem throws unless response.ok and response.json() parses
SyncItemThrows(resp) == resp # "ok"

\* error.message of the error syncItem throws; the text of the message is
\* abstracted to one opaque value
ErrorMessage(resp) == IF SyncItemThrows(resp) THEN "error" ELSE "none"

\* item.retries++; item.status = 'failed'; item.lastError = error.message
MarkFailed(it, msg) == [it EXCEPT !.retries = @ + 1, !.status = "failed", !.lastError = msg]

\* an off-by-one eviction test: item.retries > this.maxRetries
RetriesExhausted_OffByOne(it) == it.retries > maxRetries

\* item.retries >= this.maxRetries
RetriesExhausted(it) == it.retries >= maxRetries

\* results.errors.push({id, operation, error})
PushError(res, it, msg) ==
  [res EXCEPT !.failed = @ + 1,
              !.errors = Append(@, [id |-> it.id, operation |-> it.operation, error |-> msg])]

\* the for loop: index of the next snapshot item after position i that passes the if
NextEligible(snap, h, i) ==
  IF \E j \in (i + 1)..Len(snap) : Eligible(h[snap[j]])
  THEN CHOOSE j \in (i + 1)..Len(snap) :
         /\ Eligible(h[snap[j]])
         /\ \A k \in (i + 1)..(j - 1) : ~Eligible(h[snap[k]])
  ELSE Len(snap) + 1

\* the objects of the queue as they are
Items(q, h) == [i \in 1..Len(q) |-> h[q[i]]]

SaveWrite(who, u, q, h) ==
  [who |-> who, uid |-> u, queue |-> Stringify(q, h), results |-> NoResults, items |-> Items(q, h)]
StatusWrite(res) == [who |-> "status", uid |-> 0, queue |-> <<>>, results |-> res, items |-> <<>>]

\* JSON.stringify({timestamp, results}) as kept in the status slot: the counts
\* of the results (the timestamp and the texts of the error list are elided)
StatusJson(res) == [present |-> TRUE, total |-> res.total, succeeded |-> res.succeeded,
                    failed |-> res.failed]
NoStatus == [present |-> FALSE, total |-> 0, succeeded |-> 0, failed |-> 0]

\* the loop from position i up to its next await: either the fetch of the next
\* eligible item is issued, or the loop ends and saveQueue() issues its write
ContinueLoop(snap, h, q, i, w) ==
  LET j == NextEligible(snap, h, i) IN
  /\ idx' = j
  /\ IF j <= Len(snap)
     THEN /\ passPc' = "fetch"
          /\ writes' = w
          /\ attempts' = [attempts EXCEPT ![snap[j]] = @ + 1]
     ELSE /\ passPc' = "saveQueue"
          /\ writes' = Append(w, SaveWrite("save", 0, q, h))
          /\ attempts' = attempts

\* syncAll() up to its first await, called with this.isOnline = online and with
\* w the storage writes outstanding at the call
SyncAllEntry(online, via, w, ev) ==
  IF SyncRejected(online, syncInProgress)
  THEN /\ lastReturn' = [kind |-> "rejected", reason |-> RejectReason(syncInProgress), via |-> via]
       /\ writes' = w
       /\ emitted' = ev
       /\ UNCHANGED <<syncInProgress, passPc, itemsToSync, idx, results, attempts,
                      passLog, addedDuring, nActive, lastDrain>>
  ELSE /\ syncInProgress' = TRUE
       /\ emitted' = Append(ev, StartedEvent(GetQueueStatus(syncQueue, heap, TRUE)))
       /\ lastDrain' = "syncStarted"
       /\ nActive' = nActive + 1
       /\ results' = [NoResults EXCEPT !.total = Len(syncQueue)]
       /\ itemsToSync' = syncQueue
       /\ passLog' = <<>>
       /\ addedDuring' = {}
       /\ lastReturn' = [kind |-> "started", reason |-> "none", via |-> via]
       /\ ContinueLoop(syncQueue, heap, syncQueue, 0, w)

\* the items of set that are in queue q and have had no delivery attempt
StillWaiting(set, q, att) == {u \in set : u \in Range(q) /\ att[u] = 0}

\* a step that does not call syncAll
NoSyncCall(w, ev) ==
  /\ lastReturn' = NoCall
  /\ writes' = w
  /\ emitted' = ev
  /\ UNCHANGED <<syncInProgress, passPc, itemsToSync, idx, results, attempts,
                 passLog, addedDuring, nActive, lastDrain>>

\* ------------------------------------------------------ conflict resolution
\* the timestamp field of a record: absent, a number of milliseconds, an ISO
\* date string (new Date().toISOString()) or a string Date cannot parse
Absent == [kind |-> "absent", ms |-> 0]
Timestamps ==
  {Absent, [kind |-> "invalid", ms |-> 0]}
    \cup {[kind |-> k, ms |-> n] : k \in {"number", "iso"}, n \in 0..MaxTime}

\* a record: its timestamp and (name) the rest of its fields
Record(name, ts) == [name |-> name, timestamp |-> ts]
NoRecord == Record("none", Absent)
Strategies == {"server_wins", "local_wins", "merge", "newer_wins", "unrecognized"}
NoConflict == [pc |-> "idle", server |-> NoRecord, local |-> NoRecord, strategy |-> "none",
               result |-> NoRecord]

\* data.timestamp || 0: an absent timestamp and the number 0 are falsy
OrZero(ts) == IF ts.kind = "absent" \/ (ts.kind = "number" /\ ts.ms = 0)
              THEN [kind |-> "number", ms |-> 0] ELSE ts

\* new Date(v): the time value, NaN for a string that is not a date
NewDate(v) == [nan |-> v.kind = "invalid", time |-> v.ms]

\* a comparison the wrong way round: localTime < serverTime
After_Reversed(a, b) == ~a.nan /\ ~b.nan /\ a.time < b.time

\* localTime > serverTime on two Date objects (false when either is NaN)
After(a, b) == ~a.nan /\ ~b.nan /\ a.time > b.time

\* {...serverData, ...localData, _merged: true, _mergedAt: ...}
Merged(server, local) ==
  Record("merged", IF local.timestamp.kind = "absent" THEN server.timestamp ELSE local.timestamp)

\* resolveConflict(serverData, localData, strategy)
resolveConflict(server, local, strategy) ==
  CASE strategy = "server_wins" -> server
    [] strategy = "local_wins" -> local
    [] strategy = "merge" -> Merged(server, local)
    [] strategy = "newer_wins" ->
         LET serverTime == NewDate(OrZero(server.timestamp))
             localTime == NewDate(OrZero(local.timestamp))
         IN IF After(localTime, serverTime) THEN local ELSE server
    [] OTHER -> server

\* a caller resolves a conflict between a server record and a local record
ResolveConflictCall(st, lt, strategy) ==
  /\ conflict' = [pc |-> "returned", server |-> Record("server", st), local |-> Record("local", lt),
                  strategy |-> strategy,
                  result |-> resolveConflict(Record("server", st), Record("local", lt), strategy)]
  /\ UNCHANGED <<isOnline, syncQueue, heap, syncInProgress, listenerOn, pcInit, passPc,
                 itemsToSync, idx, results, writes, storedQueue, storedStatus, nextUid,
                 nRestarts, nAdmin, nWriteFail, nActive, attempts, fate, returned, passLog,
                 addedDuring, lastReturn, emitted, lastDrain, offlineWaiting, savedItems,
                 readLost, registry, attendance, acked>>

\* ------------------------------------------------------- listener registry
Fns == 1..NumListeners

\* listeners: this.listeners; iter: the array the running forEach iterates and
\* pos the number of its elements visited; calls: the listeners invoked for
\* the event, each with whether its unsubscribe closure had been called
\* before; gone: the listeners whose unsubscribe closure has been called
NoListeners == [listeners |-> <<>>, pc |-> "idle", iter |-> <<>>, pos |-> 0, calls |-> <<>>,
                gone |-> {}]

\* the array forEach goes on iterating after this.listeners was reassigned:
\* filter builds a new array and leaves the iterated one as it was
Iterated(iter, listeners) == iter

\* this.listeners.filter(l => l !== listener)
WithoutListener(ls, f) == SelectSeq(ls, LAMBDA l : l # f)

\* subscribe(fn): this.listeners.push(fn)
Subscribe(f) ==
  /\ registry.pc = "idle"
  /\ f \notin Range(registry.listeners)
  /\ registry' = [registry EXCEPT !.listeners = Append(@, f), !.gone = @ \ {f}]
  /\ UNCHANGED <<progVars, histVars, conflict, attendance, acked>>

\* the closure subscribe(fn) returned is called outside a notification
Unsubscribe(f) ==
  /\ registry.pc = "idle"
  /\ f \in Range(registry.listeners)
  /\ registry' = [registry EXCEPT !.listeners = WithoutListener(@, f), !.gone = @ \cup {f}]
  /\ UNCHANGED <<progVars, histVars, conflict, attendance, acked>>

\* notifyListeners(event): this.listeners.forEach(...) begins
NotifyListeners ==
  /\ registry.pc = "idle"
  /\ registry' = [registry EXCEPT !.pc = "notifying", !.iter = registry.listeners, !.pos = 0,
                                  !.calls = <<>>]
  /\ UNCHANGED <<progVars, histVars, conflict, attendance, acked>>

\* forEach invokes the next listener, which returns
InvokeListener ==
  /\ registry.pc = "notifying"
  /\ registry.pos < Len(registry.iter)
  /\ LET f == registry.iter[registry.pos + 1]
     IN registry' = [registry EXCEPT !.pos = @ + 1,
                       !.calls = Append(@, [fn |-> f, stale |-> f \in registry.gone])]
  /\ UNCHANGED <<progVars, histVars, conflict, attendance, acked>>

\* forEach invokes the next listener, which calls the unsubscribe closure of
\* listener g and returns
InvokeListenerUnsubscribing(g) ==
  /\ registry.pc = "notifying"
  /\ registry.pos < Len(registry.iter)
  /\ g \in Range(registry.listeners)
  /\ LET f == registry.iter[registry.pos + 1]
         ls == WithoutListener(registry.listeners, g)
     IN registry' = [registry EXCEPT !.pos = @ + 1,
                       !.calls = Append(@, [fn |-> f, stale |-> f \in registry.gone]),
                       !.listeners = ls,
                       !.iter = Iterated(registry.iter, ls),
                       !.gone = @ \cup {g}]
  /\ UNCHANGED <<progVars, histVars, conflict, attendance, acked>>

\* forEach has visited every element: notifyListeners returns
NotifyDone ==
  /\ registry.pc = "notifying"
  /\ registry.pos >= Len(registry.iter)
  /\ registry' = [registry EXCEPT !.pc = "idle"]
  /\ UNCHANGED <<progVars, histVars, conflict, attendance, acked>>

\* pc: where the direct delivery of recordAttendance stands; n: the records
\* sent directly so far; syncStatus: the syncStatus of the last history entry
NoAttendance == [pc |-> "idle", n |-> 0, syncStatus |-> "none"]

\* ------------------------------------------------------------------- Init
\* constructor(), then App.initializeServices calls initialize() once
Init ==
  /\ isOnline = "true"
  /\ syncQueue = <<>>
  /\ heap = [u \in Uids |-> NoItem]
  /\ syncInProgress = FALSE
  /\ listenerOn = FALSE
  /\ pcInit = "loading"
  /\ passPc = "idle"
  /\ itemsToSync = <<>>
  /\ idx = 0
  /\ results = NoResults
  /\ writes = <<>>
  /\ storedQueue = NoStored
  /\ storedStatus = NoStatus
  /\ nextUid = 1
  /\ nRestarts = 0
  /\ nAdmin = 0
  /\ nWriteFail = 0
  /\ nActive = 0
  /\ attempts = [u \in Uids |-> 0]
  /\ fate = [u \in Uids |-> "none"]
  /\ returned = [u \in Uids |-> FALSE]
  /\ passLog = <<>>
  /\ addedDuring = {}
  /\ lastReturn = NoCall
  /\ emitted = <<>>
  /\ lastDrain = "none"
  /\ offlineWaiting = {}
  /\ savedItems = <<>>
  /\ readLost = FALSE
  /\ conflict = NoConflict
  /\ registry = NoListeners
  /\ attendance = NoAttendance
  /\ acked = {}

Ready == pcInit \in {"done", "failed"}

\* enqueues, administrative removals, storage rejections and restarts so far
EventsSoFar == (nextUid - 1) + nAdmin + nWriteFail + nRestarts

\* a storage write may be rejected; rejections are counted to bound them
WriteOutcome(ok) ==
  /\ ok \/ EventsSoFar < MaxEvents
  /\ nWriteFail' = IF ok THEN nWriteFail ELSE nWriteFail + 1

\* ------------------------------------------------------------- initialize
\* loadQueue(): if (stored) this.syncQueue = JSON.parse(stored); catch: []
\* a loadQueue() without its catch: a failed read or parse is not noticed
LoadedQueue_NoCatch(readOk) ==
  IF storedQueue.present THEN ParseQueue(storedQueue.val) ELSE syncQueue

LoadedQueue(readOk) ==
  IF ~readOk THEN <<>>
  ELSE IF storedQueue.present THEN ParseQueue(storedQueue.val)
  ELSE syncQueue

LoadedHeap(readOk) ==
  IF readOk /\ storedQueue.present THEN ParseHeap(storedQueue.val) ELSE heap

\* loadQueue() resolves; initialize() registers the NetInfo listener and
\* issues NetInfo.fetch()
InitLoad(readOk) ==
  /\ pcInit = "loading"
  /\ syncQueue' = LoadedQueue(readOk)
  /\ heap' = LoadedHeap(readOk)
  /\ listenerOn' = TRUE
  /\ pcInit' = "probing"
  /\ NoSyncCall(writes, <<>>)
  /\ offlineWaiting' = StillWaiting(offlineWaiting, syncQueue', attempts)
  /\ readLost' = (~readOk /\ storedQueue.present /\ storedQueue.val # <<>>)
  /\ UNCHANGED <<isOnline, storedQueue, storedStatus, nextUid, nRestarts, nAdmin,
                 nWriteFail, fate, returned,
                 savedItems, conflict, registry, attendance, acked>>

\* NetInfo.fetch() resolves: this.isOnline = state.isConnected && state.isInternetReachable
InitProbe(conn, reach) ==
  /\ pcInit = "probing"
  /\ isOnline' = JsAnd(conn, reach)
  /\ pcInit' = "done"
  /\ NoSyncCall(writes, <<>>)
  /\ UNCHANGED <<syncQueue, heap, listenerOn, storedQueue, storedStatus, nextUid,
                 nRestarts, nAdmin, nWriteFail, fate, returned,
                 offlineWaiting, savedItems, conflict, readLost, registry, attendance, acked>>

\* NetInfo.fetch() rejects: initialize() rejects
InitProbeFail ==
  /\ pcInit = "probing"
  /\ pcInit' = "failed"
  /\ NoSyncCall(writes, <<>>)
  /\ UNCHANGED <<isOnline, syncQueue, heap, listenerOn, storedQueue, storedStatus, nextUid,
                 nRestarts, nAdmin, nWriteFail, fate, returned,
                 offlineWaiting, savedItems, conflict, readLost, registry, attendance, acked>>

\* the NetInfo listener registered by initialize()
NetInfoChange(conn, reach) ==
  /\ listenerOn
  /\ isOnline' = JsAnd(conn, reach)
  /\ LET ev == <<OnlineEvent(JsAnd(conn, reach), GetQueueStatus(syncQueue, heap, syncInProgress))>>
     IN IF ~Truthy(isOnline) /\ Truthy(JsAnd(conn, reach))
        THEN SyncAllEntry(JsAnd(conn, reach), "netinfo", writes, ev)
        ELSE NoSyncCall(writes, ev)
  /\ offlineWaiting' = StillWaiting(offlineWaiting, syncQueue, attempts')
  /\ UNCHANGED <<syncQueue, heap, listenerOn, pcInit, storedQueue, storedStatus, nextUid,
                 nRestarts, nAdmin, nWriteFail, fate, returned,
                 savedItems, conflict, readLost, registry, attendance, acked>>

\* ------------------------------------------------------- queue management
\* a new queue item: retries 0, status pending
NewItem(id) == [id |-> id, operation |-> "attendance", retries |-> 0, status |-> "pending",
                lastError |-> "none"]

\* id: Date.now() + Math.random().  Ids are only ever compared for equality,
\* so a new id is either the id of an item created before or the least value
\* not used yet.
UsedIds == {heap[u].id : u \in 1..(nextUid - 1)} \cap IdValues
NewIds ==
  UsedIds \cup (IF IdValues \ UsedIds = {} THEN {}
                ELSE {CHOOSE i \in IdValues \ UsedIds : \A j \in IdValues \ UsedIds : i <= j})

\* addToQueue(operation) up to await this.saveQueue()
AddToQueue(id) ==
  /\ Ready
  /\ EventsSoFar < MaxEvents
  /\ id \in NewIds
  /\ LET u == nextUid
         h == [heap EXCEPT ![u] = NewItem(id)]
         q == Append(syncQueue, u)
     IN /\ heap' = h
        /\ syncQueue' = q
        /\ writes' = Append(writes, SaveWrite("add", u, q, h))
        /\ fate' = [fate EXCEPT ![u] = "live"]
        /\ addedDuring' = IF passPc # "idle" THEN addedDuring \cup {u} ELSE addedDuring
  /\ nextUid' = nextUid + 1
  /\ lastReturn' = NoCall
  /\ emitted' = <<>>
  /\ offlineWaiting' = IF Truthy(isOnline) THEN offlineWaiting ELSE offlineWaiting \cup {nextUid}
  /\ UNCHANGED <<isOnline, syncInProgress, listenerOn, pcInit, passPc, itemsToSync, idx,
                 results, storedQueue, storedStatus, nRestarts, nAdmin, nWriteFail, nActive,
                 attempts, returned, passLog,
                 savedItems, conflict, lastDrain, readLost, registry, attendance, acked>>

\* a saveQueue() whose write never reaches the slot
Stored_Dropped(w, ok) == storedQueue

\* saveQueue(): the AsyncStorage.setItem settles; a rejection is caught and logged
Stored(w, ok) == IF ok THEN [present |-> TRUE, val |-> w.queue] ELSE storedQueue

\* addToQueue after await this.saveQueue(): if (this.isOnline) this.syncAll(); return id
AddToQueueDone(ok) ==
  /\ writes # <<>>
  /\ Head(writes).who = "add"
  /\ WriteOutcome(ok)
  /\ storedQueue' = Stored(Head(writes), ok)
  /\ returned' = [returned EXCEPT ![Head(writes).uid] = TRUE]
  /\ IF Truthy(isOnline)
     THEN SyncAllEntry(isOnline, "addToQueue", Tail(writes), <<>>)
     ELSE NoSyncCall(Tail(writes), <<>>)
  /\ savedItems' = IF ok THEN Head(writes).items ELSE savedItems
  /\ offlineWaiting' = StillWaiting(offlineWaiting, syncQueue, attempts')
  /\ UNCHANGED <<isOnline, syncQueue, heap, listenerOn, pcInit, storedStatus, nextUid,
                 nRestarts, nAdmin, fate,
                 conflict, readLost, registry, attendance, acked>>

\* clearQueue() up to await this.saveQueue(), while fewer than limit events happened
ClearQueueWithin(limit) ==
  /\ Ready
  /\ EventsSoFar < limit
  /\ nAdmin' = nAdmin + 1
  /\ syncQueue' = <<>>
  /\ fate' = [u \in Uids |-> IF u \in Range(syncQueue) THEN "removed" ELSE fate[u]]
  /\ NoSyncCall(Append(writes, SaveWrite("admin", 0, <<>>, heap)), <<>>)
  /\ offlineWaiting' = StillWaiting(offlineWaiting, syncQueue', attempts)
  /\ UNCHANGED <<isOnline, heap, listenerOn, pcInit, storedQueue, storedStatus, nextUid,
                 nRestarts, nWriteFail, returned,
                 savedItems, conflict, readLost, registry, attendance, acked>>

\* removeQueueItem(id) up to await this.saveQueue(), while fewer than limit
\* events happened
RemoveQueueItemWithin(id, limit) ==
  /\ Ready
  /\ EventsSoFar < limit
  /\ nAdmin' = nAdmin + 1
  /\ LET q == FilterOutId(syncQueue, heap, id)
     IN /\ syncQueue' = q
        /\ fate' = [u \in Uids |->
                      IF u \in Range(syncQueue) \ Range(q) THEN "removed" ELSE fate[u]]
        /\ NoSyncCall(Append(writes, SaveWrite("admin", 0, q, heap)), <<>>)
  /\ offlineWaiting' = StillWaiting(offlineWaiting, syncQueue', attempts)
  /\ UNCHANGED <<isOnline, heap, listenerOn, pcInit, storedQueue, storedStatus, nextUid,
                 nRestarts, nWriteFail, returned,
                 savedItems, conflict, readLost, registry, attendance, acked>>

\* clearQueue() up to await this.saveQueue()
ClearQueue == ClearQueueWithin(MaxEvents)

\* removeQueueItem(id) up to await this.saveQueue()
RemoveQueueItem(id) == RemoveQueueItemWithin(id, MaxEvents)

\* clearQueue / removeQueueItem after await this.saveQueue()
AdminDone(ok) ==
  /\ writes # <<>>
  /\ Head(writes).who = "admin"
  /\ WriteOutcome(ok)
  /\ storedQueue' = Stored(Head(writes), ok)
  /\ NoSyncCall(Tail(writes), <<>>)
  /\ savedItems' = IF ok THEN Head(writes).items ELSE savedItems
  /\ UNCHANGED <<isOnline, syncQueue, heap, listenerOn, pcInit, storedStatus, nextUid,
                 nRestarts, nAdmin, fate, returned,
                 offlineWaiting, conflict, readLost, registry, attendance, acked>>

\* --------------------------------------------------------- synchronisation
\* an external caller invokes syncAll()
SyncAllCall ==
  /\ Ready
  /\ SyncAllEntry(isOnline, "syncAll", writes, <<>>)
  /\ offlineWaiting' = StillWaiting(offlineWaiting, syncQueue, attempts')
  /\ UNCHANGED <<isOnline, syncQueue, heap, listenerOn, pcInit, storedQueue, storedStatus,
                 nextUid, nRestarts, nAdmin, nWriteFail, fate, returned,
                 savedItems, conflict, readLost, registry, attendance, acked>>

\* a forceSync() without its own test: return await this.syncAll()
ForceSync_NoThrow ==
  /\ Ready
  /\ SyncAllEntry(isOnline, "forceSync", writes, <<>>)
  /\ offlineWaiting' = StillWaiting(offlineWaiting, syncQueue, attempts')
  /\ UNCHANGED <<isOnline, syncQueue, heap, listenerOn, pcInit, storedQueue, storedStatus,
                 nextUid, nRestarts, nAdmin, nWriteFail, fate, returned,
                 savedItems, conflict, readLost, registry, attendance, acked>>

\* forceSync(): throws when offline, otherwise return await this.syncAll()
ForceSync ==
  /\ Ready
  /\ IF ~Truthy(isOnline)
     THEN /\ lastReturn' = [kind |-> "threw", reason |-> "Cannot sync while offline",
                            via |-> "forceSync"]
          /\ emitted' = <<>>
          /\ UNCHANGED <<syncInProgress, passPc, itemsToSync, idx, results, writes, attempts,
                         passLog, addedDuring, nActive, lastDrain>>
     ELSE SyncAllEntry(isOnline, "forceSync", writes, <<>>)
  /\ offlineWaiting' = StillWaiting(offlineWaiting, syncQueue, attempts')
  /\ UNCHANGED <<isOnline, syncQueue, heap, listenerOn, pcInit, storedQueue, storedStatus,
                 nextUid, nRestarts, nAdmin, nWriteFail, fate, returned,
                 savedItems, conflict, readLost, registry, attendance, acked>>

\* await this.syncItem(item) settles with response resp; the try or the catch
\* block runs and the loop goes on to its next await
FetchDoneStep(resp) ==
  /\ passPc = "fetch"
  /\ LET u == itemsToSync[idx]
         it == heap[u]
         msg == ErrorMessage(resp)
         failedIt == MarkFailed(it, msg)
         h == IF SyncItemThrows(resp) THEN [heap EXCEPT ![u] = failedIt] ELSE heap
         q == IF SyncItemThrows(resp)
              THEN IF RetriesExhausted(failedIt)
                   THEN FilterOutId(syncQueue, h, failedIt.id)
                   ELSE syncQueue
              ELSE FilterOutId(syncQueue, heap, it.id)
     IN /\ heap' = h
        /\ syncQueue' = q
        /\ results' = IF SyncItemThrows(resp)
                      THEN PushError(results, failedIt, msg)
                      ELSE [results EXCEPT !.succeeded = @ + 1]
        /\ fate' = [fate EXCEPT ![u] =
                      IF ~SyncItemThrows(resp) THEN "delivered"
                      ELSE IF RetriesExhausted(failedIt) THEN "evicted" ELSE @]
        /\ passLog' = Append(passLog, [uid |-> u, ok |-> ~SyncItemThrows(resp)])
        /\ ContinueLoop(itemsToSync, h, q, idx, writes)
  /\ lastReturn' = NoCall
  /\ emitted' = <<>>
  /\ offlineWaiting' = StillWaiting(offlineWaiting, syncQueue', attempts')
  /\ UNCHANGED <<isOnline, syncInProgress, listenerOn, pcInit, itemsToSync, storedQueue,
                 storedStatus, nextUid, nRestarts, nAdmin, nWriteFail, nActive, returned,
                 addedDuring,
                 savedItems, conflict, lastDrain, readLost, registry, attendance>>

\* one delivery attempt of the pass settles (syncItem resolves or throws)
FetchDone(resp) ==
  /\ FetchDoneStep(resp)
  /\ UNCHANGED acked

\* the same step, remembering the items the server answered with a 2xx status
FetchDoneAcked(resp) ==
  /\ FetchDoneStep(resp)
  /\ acked' = IF ResponseOk(resp) THEN acked \cup {itemsToSync[idx]} ELSE acked

\* await this.saveQueue() of syncAll resolves; AsyncStorage.setItem(SYNC_STATUS_KEY) is issued
SaveDone(ok) ==
  /\ passPc = "saveQueue"
  /\ writes # <<>>
  /\ Head(writes).who = "save"
  /\ WriteOutcome(ok)
  /\ storedQueue' = Stored(Head(writes), ok)
  /\ writes' = Append(Tail(writes), StatusWrite(results))
  /\ passPc' = "status"
  /\ lastReturn' = NoCall
  /\ emitted' = <<>>
  /\ savedItems' = IF ok THEN Head(writes).items ELSE savedItems
  /\ UNCHANGED <<isOnline, syncQueue, heap, syncInProgress, listenerOn, pcInit, itemsToSync,
                 idx, results, storedStatus, nextUid, nRestarts, nAdmin, nActive, attempts,
                 fate, returned, passLog, addedDuring,
                 offlineWaiting, conflict, lastDrain, readLost, registry, attendance, acked>>

\* the write of the sync status resolves: syncInProgress = false, listeners are
\* notified and syncAll returns results
StatusDone ==
  /\ passPc = "status"
  /\ writes # <<>>
  /\ Head(writes).who = "status"
  /\ storedStatus' = StatusJson(Head(writes).results)
  /\ writes' = Tail(writes)
  /\ syncInProgress' = FALSE
  /\ passPc' = "idle"
  /\ nActive' = nActive - 1
  /\ itemsToSync' = <<>>
  /\ idx' = 0
  /\ results' = NoResults
  /\ passLog' = <<>>
  /\ addedDuring' = {}
  /\ lastReturn' = [kind |-> "results", reason |-> "none", via |-> "pass"]
  /\ emitted' = <<CompletedEvent(results, GetQueueStatus(syncQueue, heap, syncInProgress'))>>
  /\ lastDrain' = "syncCompleted"
  /\ UNCHANGED <<isOnline, syncQueue, heap, listenerOn, pcInit, storedQueue, nextUid,
                 nRestarts, nAdmin, nWriteFail, attempts, fate, returned,
                 offlineWaiting, savedItems, conflict, readLost, registry, attendance, acked>>

\* the write of the sync status rejects: the await in syncAll throws (it is not
\* inside a try), syncAll rejects and the lines after it never run
StatusFail ==
  /\ passPc = "status"
  /\ writes # <<>>
  /\ Head(writes).who = "status"
  /\ WriteOutcome(FALSE)
  /\ writes' = Tail(writes)
  /\ passPc' = "idle"
  /\ nActive' = nActive - 1
  /\ itemsToSync' = <<>>
  /\ idx' = 0
  /\ results' = NoResults
  /\ passLog' = <<>>
  /\ addedDuring' = {}
  /\ lastReturn' = [kind |-> "threw", reason |-> "storage", via |-> "pass"]
  /\ emitted' = <<>>
  /\ UNCHANGED <<isOnline, syncQueue, heap, syncInProgress, listenerOn, pcInit, storedQueue,
                 storedStatus, nextUid, nRestarts, nAdmin, attempts, fate, returned,
                 offlineWaiting, savedItems, conflict, lastDrain, readLost, registry, attendance, acked>>

\* ---------------------------------------------------------------- restart
StoredUids == {storedQueue.val[i].uid : i \in 1..Len(storedQueue.val)}

\* the application is killed and started again: a fresh manager, the storage kept
Restart ==
  /\ nRestarts < MaxRestarts
  /\ EventsSoFar < MaxEvents
  /\ nRestarts' = nRestarts + 1
  /\ nActive' = 0
  /\ isOnline' = "true"
  /\ syncQueue' = <<>>
  /\ heap' = [u \in Uids |-> NoItem]
  /\ syncInProgress' = FALSE
  /\ listenerOn' = FALSE
  /\ pcInit' = "loading"
  /\ passPc' = "idle"
  /\ itemsToSync' = <<>>
  /\ idx' = 0
  /\ results' = NoResults
  /\ writes' = <<>>
  /\ attempts' = [u \in Uids |-> 0]
  /\ fate' = [u \in Uids |->
                IF fate[u] = "none" THEN "none"
                ELSE IF u \in StoredUids THEN "live" ELSE "gone"]
  /\ returned' = [u \in Uids |-> u \in StoredUids]
  /\ passLog' = <<>>
  /\ addedDuring' = {}
  /\ lastReturn' = NoCall
  /\ emitted' = <<>>
  /\ lastDrain' = "none"
  /\ offlineWaiting' = {}
  /\ readLost' = FALSE
  /\ UNCHANGED <<storedQueue, storedStatus, nextUid, nAdmin, nWriteFail,
                 savedItems, conflict, registry, attendance, acked>>

\* ------------------------------------------------------------------- Next
\* ------------------------------------------------------- recordAttendance
\* recordAttendance when checkOnlineStatus() is falsy: addToQueue(...)
RecordAttendanceOffline(id) ==
  /\ ~Truthy(isOnline)
  /\ attendance.pc = "idle"
  /\ (nextUid - 1) + attendance.n < MaxEvents
  /\ AddToQueue(id)

\* recordAttendance when checkOnlineStatus() is truthy: the direct fetch is issued
RecordAttendanceOnline ==
  /\ Truthy(isOnline)
  /\ attendance.pc = "idle"
  /\ (nextUid - 1) + attendance.n < MaxEvents
  /\ attendance' = [pc |-> "fetching", n |-> attendance.n + 1, syncStatus |-> "none"]
  /\ UNCHANGED <<progVars, histVars, conflict, registry, acked>>

\* the bodies response.json() can meet: a network error gives no response,
\* the body of an error response may or may not be JSON
Parses(resp) ==
  CASE resp = "ok" -> {TRUE}
    [] resp = "http_error" -> BOOLEAN
    [] OTHER -> {FALSE}

\* the history entry: 'success' once response.json() resolved (response.ok is
\* not looked at), 'failed' in the catch block
SyncStatus(resp, parsed) ==
  IF resp # "network_error" /\ parsed THEN "success" ELSE "failed"

\* the direct fetch and response.json() settle; the history entry is saved and
\* the alert shown; the catch block enqueues nothing
RecordAttendanceDone(resp, parsed) ==
  /\ attendance.pc = "fetching"
  /\ parsed \in Parses(resp)
  /\ attendance' = [attendance EXCEPT !.pc = "idle", !.syncStatus = SyncStatus(resp, parsed)]
  /\ UNCHANGED <<progVars, histVars, conflict, registry, acked>>

Next ==
  \/ \E readOk \in BOOLEAN : InitLoad(readOk)
  \/ \E conn \in JsBool, reach \in JsBoolOrNull : InitProbe(conn, reach)
  \/ \E conn \in JsBool, reach \in JsBoolOrNull : NetInfoChange(conn, reach)
  \/ \E id \in IdValues : AddToQueue(id)
  \/ \E ok \in BOOLEAN : AddToQueueDone(ok)
  \/ ClearQueue
  \/ \E id \in IdValues : RemoveQueueItem(id)
  \/ \E ok \in BOOLEAN : AdminDone(ok)
  \/ SyncAllCall
  \/ ForceSync
  \/ \E resp \in Responses : FetchDone(resp)
  \/ \E ok \in BOOLEAN : SaveDone(ok)
  \/ StatusDone
  \/ StatusFail

Spec == Init /\ [][Next]_vars

TypeOK ==
  /\ isOnline \in JsBoolOrNull
  /\ syncInProgress \in BOOLEAN
  /\ passPc \in {"idle", "fetch", "saveQueue", "status"}
  /\ pcInit \in {"loading", "probing", "done", "failed"}
  /\ nextUid \in 1..(MaxEvents + 1)
  /\ Range(syncQueue) \subseteq Uids

NextRestart == Next \/ InitProbeFail \/ Restart

\* the manager together with application restarts and a failing initial probe
SpecRestart == Init /\ [][NextRestart]_vars

NextAdmin ==
  \/ \E readOk \in BOOLEAN : InitLoad(readOk)
  \/ \E conn \in JsBool, reach \in JsBoolOrNull : InitProbe(conn, reach)
  \/ \E id \in IdValues : AddToQueue(id)
  \/ AddToQueueDone(TRUE)
  \/ ClearQueueWithin(MaxEvents + 1)
  \/ \E id \in IdValues : RemoveQueueItemWithin(id, MaxEvents + 1)
  \/ AdminDone(TRUE)
  \/ SyncAllCall
  \/ \E resp \in Responses : FetchDone(resp)
  \/ SaveDone(TRUE)
  \/ StatusDone

\* administrative removals on top of a full queue, with a reliable storage
\* and a connection that does not change after the initial probe
SpecAdmin == Init /\ [][NextAdmin]_vars

NextDelivery ==
  \/ \E readOk \in BOOLEAN : InitLoad(readOk)
  \/ \E conn \in JsBool, reach \in JsBoolOrNull : InitProbe(conn, reach)
  \/ \E conn \in JsBool, reach \in JsBoolOrNull : NetInfoChange(conn, reach)
  \/ \E id \in IdValues : AddToQueue(id)
  \/ \E ok \in BOOLEAN : AddToQueueDone(ok)
  \/ SyncAllCall
  \/ ForceSync
  \/ \E resp \in Responses : FetchDoneAcked(resp)
  \/ \E ok \in BOOLEAN : SaveDone(ok)
  \/ StatusDone
  \/ StatusFail

\* syncAll, forceSync, addToQueue and connectivity changes, with the answers
\* of the server remembered
SpecDelivery == Init /\ [][NextDelivery]_vars

NextAttendance ==
  \/ \E readOk \in BOOLEAN : InitLoad(readOk)
  \/ \E conn \in JsBool, reach \in JsBoolOrNull : InitProbe(conn, reach)
  \/ \E conn \in JsBool, reach \in JsBoolOrNull : NetInfoChange(conn, reach)
  \/ \E id \in IdValues : RecordAttendanceOffline(id)
  \/ \E ok \in BOOLEAN : AddToQueueDone(ok)
  \/ RecordAttendanceOnline
  \/ \E resp \in Responses, parsed \in BOOLEAN : RecordAttendanceDone(resp, parsed)
  \/ \E resp \in Responses : FetchDone(resp)
  \/ \E ok \in BOOLEAN : SaveDone(ok)
  \/ StatusDone
  \/ StatusFail

\* the attendance screen recording attendance through the manager
SpecAttendance == Init /\ [][NextAttendance]_vars

NextListeners ==
  \/ \E f \in Fns : Subscribe(f)
  \/ \E f \in Fns : Unsubscribe(f)
  \/ NotifyListeners
  \/ InvokeListener
  \/ \E g \in Fns : InvokeListenerUnsubscribing(g)
  \/ NotifyDone

\* the listener registry: subscriptions, unsubscriptions and notifications
SpecListeners == Init /\ [][NextListeners]_vars

NextResolve ==
  \E st \in Timestamps, lt \in Timestamps, strategy \in Strategies :
    ResolveConflictCall(st, lt, strategy)

\* the conflict resolver called on every pair of records and every strategy
SpecResolve == Init /\ [][NextResolve]_vars

\* ================================================================== claims
Last(s) == s[Len(s)]

\* the step contains an invocation of syncAll()
SyncAllInvoked == lastReturn'.kind \in {"rejected", "started"}

\* C1: at most one syncAll invocation is past the guard and inside the pass at
\* any time, whatever the interleaving of syncAll, forceSync, addToQueue and the
\* connectivity callback.
C1_MutualExclusion == nActive <= 1

\* a call was rejected with sync_in_progress while the pass awaits a delivery
C1_Witness ==
  /\ nActive = 1
  /\ passPc = "fetch"
  /\ lastReturn.kind = "rejected"
  /\ lastReturn.reason = "sync_in_progress"

\* C2: there is no reachable state in which syncInProgress is true while no
\* pass is executing (every pass that enters Draining returns to Idle).
C2_NoStuckDraining == syncInProgress => passPc # "idle"

\* this.isOnline as the invoked syncAll() reads it (the connectivity callback
\* assigns it before the call)
CallOnline == IF lastReturn'.via = "netinfo" THEN isOnline' ELSE isOnline

\* what a rejected call leaves alone: the queue, the items, the flag, the running
\* pass, the delivery attempts and the storage writes and slots (a call made by
\* addToQueue follows the completion of addToQueue's own write)
RejectedCallDidNothing ==
  /\ UNCHANGED <<syncQueue, heap, syncInProgress, passPc, itemsToSync, idx, results,
                 storedStatus, attempts, nActive>>
  /\ IF lastReturn'.via = "addToQueue"
     THEN writes' = Tail(writes)
     ELSE UNCHANGED <<writes, storedQueue>>

\* C3: a syncAll() invoked while a drain pass is in progress returns
\* {success: false, reason: 'sync_in_progress'} and does no work: queue, items,
\* persisted slots and syncInProgress are unchanged and no delivery is attempted.
C3_RejectedWhileDraining ==
  [][(syncInProgress /\ SyncAllInvoked)
       => /\ lastReturn'.kind = "rejected"
          /\ lastReturn'.reason = "sync_in_progress"
          /\ RejectedCallDidNothing]_vars

\* a direct syncAll() call was rejected while a pass with a non-empty queue runs
C3_Witness ==
  /\ lastReturn = [kind |-> "rejected", reason |-> "sync_in_progress", via |-> "syncAll"]
  /\ syncInProgress
  /\ passPc = "fetch"
  /\ syncQueue # <<>>

C5_RetryBudget ==
  \A u \in Uids :
    /\ attempts[u] <= maxRetries
    /\ heap[u].retries <= maxRetries
    /\ heap[u].retries >= maxRetries
         => /\ u \notin Range(syncQueue)
            /\ ~(passPc = "fetch" /\ itemsToSync[idx] = u)

\* an item failed maxRetries times and was evicted
C5_Witness ==
  \E u \in Uids :
    /\ heap[u].retries = maxRetries
    /\ attempts[u] = maxRetries
    /\ fate[u] = "evicted"
    /\ u \notin Range(syncQueue)

\* the step ends a drain pass (syncAll returns its results or throws)
PassEnds == passPc = "status" /\ passPc' = "idle"

\* the step completes a drain pass: syncAll returns results
PassCompletes == PassEnds /\ ~syncInProgress'

\* the step is a delivery attempt of the running pass that succeeds / fails
DeliverySucceeds ==
  passPc = "fetch" /\ Len(passLog') = Len(passLog) + 1 /\ Last(passLog').ok
DeliveryFails ==
  passPc = "fetch" /\ Len(passLog') = Len(passLog) + 1 /\ ~Last(passLog').ok

FailedIn(log) == {log[i].uid : i \in {j \in 1..Len(log) : ~log[j].ok}}
SucceededIn(log) == {log[i].uid : i \in {j \in 1..Len(log) : log[j].ok}}

\* C6 as stated (with no administrative removal and no rejected storage write):
\* when a pass ends in which an item that has never been delivered failed for
\* the k-th time, the item is in the queue with status failed and retries k if
\* k < maxRetries, and in neither the queue nor the persisted queue otherwise.
C6_AlwaysFailingItem ==
  [][(PassEnds /\ nAdmin = 0 /\ nWriteFail' = 0)
       => \A u \in FailedIn(passLog) :
            IF attempts[u] < maxRetries
            THEN /\ u \in Range(syncQueue')
                 /\ heap'[u].status = "failed"
                 /\ heap'[u].retries = attempts[u]
            ELSE /\ u \notin Range(syncQueue')
                 /\ u \notin StoredUids']_vars

\* C7 as stated: a successful delivery removes the delivered item and no other
\* item from the queue; when the pass has completed the delivered items are in
\* neither the in-memory nor (if no write was rejected) the persisted queue and
\* results.succeeded counts them.
C7_SuccessRemovesOnlyItem ==
  [][/\ DeliverySucceeds
          => /\ itemsToSync[idx] \notin Range(syncQueue')
             /\ Range(syncQueue) \ Range(syncQueue') \subseteq {itemsToSync[idx]}
     /\ PassCompletes
          => /\ results.succeeded = Cardinality(SucceededIn(passLog))
             /\ SucceededIn(passLog) \cap Range(syncQueue') = {}
             /\ nWriteFail' = 0 => SucceededIn(passLog) \cap StoredUids' = {}]_vars

\* C8 as stated (with no administrative removal): the results of a completed
\* pass satisfy total = succeeded + failed = number of items attempted, errors
\* has one entry per failed item, and afterwards the queue holds exactly the
\* failed items that were not evicted plus the items enqueued during the pass.
C8_ResultsAndQueue ==
  [][(PassCompletes /\ nAdmin = 0)
       => /\ results.total = results.succeeded + results.failed
          /\ results.total = Len(passLog)
          /\ Len(results.errors) = results.failed
          /\ results.failed = Cardinality(FailedIn(passLog))
          /\ \A i \in 1..Len(results.errors) :
               \E u \in FailedIn(passLog) : results.errors[i].id = heap[u].id
          /\ Range(syncQueue') =
               {u \in FailedIn(passLog) : heap[u].retries < maxRetries} \cup addedDuring]_vars

\* the step is the return of an addToQueue call
AddReturns == writes # <<>> /\ Head(writes).who = "add" /\ returned'[Head(writes).uid]

\* only addToQueue calls so far, all without a drain: no delivery was attempted,
\* nothing was removed, no pass is active and the manager is offline
OnlyOfflineAdds ==
  /\ ~Truthy(isOnline)
  /\ ~syncInProgress
  /\ nAdmin = 0
  /\ \A u \in Uids : attempts[u] = 0 /\ fate[u] \in {"none", "live"}

IsPrefix(a, b) == Len(a) <= Len(b) /\ \A i \in 1..Len(a) : a[i] = b[i]

ReturnedCalls == Cardinality({u \in Uids : returned[u]})

C10_NoPendingWorkLost ==
  nWriteFail = 0
    => \A u \in Uids : (returned[u] /\ fate[u] = "live") => u \in StoredUids

\* the step changes this.isOnline from offline (a falsy value) to online
OnlineRestored == ~Truthy(isOnline) /\ Truthy(isOnline')

\* C11: every step that changes the manager's online value from offline to
\* online, in the connectivity callback or in the initial probe of
\* initialize(), invokes syncAll().
C11_RestoredTriggersDrain == [][OnlineRestored => SyncAllInvoked]_vars

\* the manager is online and at rest: initialize() has ended, no pass is
\* running and no call awaits a storage write, so that a delivery attempt can
\* only follow from a new call or a new connectivity event
Quiescent ==
  /\ Ready
  /\ Truthy(isOnline)
  /\ passPc = "idle"
  /\ writes = <<>>

\* C12 as stated (with no rejected storage write): an item enqueued while
\* offline gets a delivery attempt once connectivity is restored, without a
\* further user action; so when the manager is online and at rest, no queued
\* item that was enqueued offline is still without an attempt.
C12_OfflineItemsAttempted == (Quiescent /\ nWriteFail = 0) => offlineWaiting = {}

\* C13 as stated (with no rejected storage write): after a failed attempt with
\* retries below maxRetries the manager itself attempts the item again while
\* online; so when the manager is online and at rest, no queued item is left
\* failed with retries below maxRetries.
C13_FailedItemsRetried ==
  (Quiescent /\ nWriteFail = 0)
    => \A u \in Range(syncQueue) :
         ~(heap[u].status = "failed" /\ heap[u].retries < maxRetries)

\* every queued item is pending or failed, and the counts of getQueueStatus() add up
QueueStatusCounts ==
  LET st == GetQueueStatus(syncQueue, heap, syncInProgress)
  IN /\ \A u \in Range(syncQueue) : heap[u].status \in {"pending", "failed"}
     /\ st.total = st.pending + st.failed

\* C14: every queued item has status pending or failed, getQueueStatus() has
\* total = pending + failed, and its syncing field tells whether a drain pass
\* is in progress.
C14_QueueStatus ==
  /\ QueueStatusCounts
  /\ GetQueueStatus(syncQueue, heap, syncInProgress).syncing = (passPc # "idle")

\* the drain events (syncStarted, syncCompleted) among the events ev
DrainEvents(ev) == SelectSeq(ev, LAMBDA e : e.type \in {"syncStarted", "syncCompleted"})

\* the step begins a drain pass the way syncAll() does: the flag is set, the
\* snapshot is the queue, results.total its length, syncStarted is notified
PassBegins ==
  /\ lastReturn'.kind = "started"
  /\ syncInProgress'
  /\ itemsToSync' = syncQueue
  /\ results'.total = Len(syncQueue)
  /\ passPc' # "idle"
  /\ Len(emitted') = 1
  /\ emitted'[1].type = "syncStarted"
  /\ UNCHANGED <<syncQueue, heap, storedQueue, storedStatus>>

\* C15: forceSync() called while offline raises 'Cannot sync while offline',
\* leaves the queue, the items, the persisted slots and syncInProgress
\* unchanged and notifies no listener; called while online it does what
\* syncAll() does: rejected with sync_in_progress during a pass, and otherwise
\* it begins a pass.
C15_ForceSync ==
  [][(lastReturn'.via = "forceSync")
       => IF ~Truthy(isOnline)
          THEN /\ lastReturn'.kind = "threw"
               /\ lastReturn'.reason = "Cannot sync while offline"
               /\ emitted' = <<>>
               /\ UNCHANGED <<syncQueue, heap, storedQueue, storedStatus, syncInProgress,
                              writes, passPc, itemsToSync, attempts>>
          ELSE IF syncInProgress
               THEN /\ lastReturn'.kind = "rejected"
                    /\ lastReturn'.reason = "sync_in_progress"
                    /\ emitted' = <<>>
                    /\ RejectedCallDidNothing
               ELSE PassBegins]_vars

\* forceSync() threw on a non-empty queue while offline
C15_Witness ==
  /\ lastReturn = [kind |-> "threw", reason |-> "Cannot sync while offline", via |-> "forceSync"]
  /\ ~Truthy(isOnline)
  /\ syncQueue # <<>>

\* the step settles a storage write with a rejection
WriteRejected == nWriteFail' = nWriteFail + 1

\* C16: a rejected storage write never propagates and never wedges the
\* manager: addToQueue, clearQueue and removeQueueItem still complete, a pass
\* whose queue write fails goes on, and a pass whose status write fails still
\* returns its results, notifies syncCompleted and leaves syncInProgress false.
C16_WriteFailuresContained ==
  [][WriteRejected
       => /\ lastReturn'.kind # "threw"
          /\ Head(writes).who = "add" => returned'[Head(writes).uid]
          /\ Head(writes).who = "save" => passPc' = "status"
          /\ Head(writes).who = "status"
               => /\ lastReturn'.kind = "results"
                  /\ ~syncInProgress'
                  /\ \E i \in 1..Len(emitted') : emitted'[i].type = "syncCompleted"]_vars

\* C17: initialize() never ends by raising.
C17_InitializeNeverRaises == pcInit # "failed"

\* C18: drain events.  A step that begins a pass notifies exactly one
\* syncStarted, a step that ends a pass notifies exactly one syncCompleted,
\* carrying the results of the pass and seen with syncing = false; no other
\* step (a rejected call among them) notifies a drain event; the two events
\* alternate, syncStarted first, and passes do not overlap.
C18_DrainEventProtocol ==
  [][/\ nActive' <= 1
     /\ IF lastReturn'.kind = "started"
        THEN /\ Len(DrainEvents(emitted')) = 1
             /\ DrainEvents(emitted')[1].type = "syncStarted"
             /\ lastDrain # "syncStarted"
        ELSE IF PassEnds
        THEN /\ Len(DrainEvents(emitted')) = 1
             /\ DrainEvents(emitted')[1].type = "syncCompleted"
             /\ DrainEvents(emitted')[1].results = results
             /\ ~DrainEvents(emitted')[1].syncing
             /\ lastReturn'.kind = "results"
             /\ lastDrain = "syncStarted"
        ELSE DrainEvents(emitted') = <<>>]_vars

\* the step is loadQueue() of a started manager whose read did not fail
LoadsQueue == pcInit = "loading" /\ pcInit' = "probing" /\ ~readLost'

TimeOf(r) == IF r.timestamp.kind = "absent" THEN 0 ELSE r.timestamp.ms
Dated(r) == r.timestamp.kind # "invalid"

\* C20: newer_wins returns one of its two arguments unchanged, and for records
\* whose timestamps are absent (taken as 0) or dates, one whose time is not
\* earlier than the other's; the arguments are left as they were; an
\* unrecognized strategy returns what server_wins returns, the server record.
C20_NewerWins ==
  conflict.pc = "returned"
    => /\ conflict.server.name = "server" /\ conflict.local.name = "local"
       /\ conflict.strategy = "newer_wins"
            => /\ conflict.result \in {conflict.server, conflict.local}
               /\ (Dated(conflict.server) /\ Dated(conflict.local))
                    => /\ TimeOf(conflict.result) >= TimeOf(conflict.server)
                       /\ TimeOf(conflict.result) >= TimeOf(conflict.local)
       /\ conflict.strategy \in {"unrecognized", "server_wins"}
            => conflict.result = conflict.server

\* newer_wins returned the local record, later than a server record without timestamp
C20_Witness ==
  /\ conflict.pc = "returned"
  /\ conflict.strategy = "newer_wins"
  /\ conflict.server.timestamp.kind = "absent"
  /\ conflict.local.timestamp.kind = "iso"
  /\ conflict.local.timestamp.ms > 0
  /\ conflict.result = conflict.local

\* positions in the snapshot of the items attempted so far by the running pass
AttemptedUids(log) == [i \in 1..Len(log) |-> log[i].uid]

\* seq a is a subsequence of seq b whose elements are pairwise distinct
InOrderOf(a, b) ==
  \A i \in 1..Len(a) :
    /\ \E k \in 1..Len(b) : b[k] = a[i]
    /\ \A j \in (i + 1)..Len(a) :
         \E k \in 1..Len(b), l \in 1..Len(b) : k < l /\ b[k] = a[i] /\ b[l] = a[j]

\* C21 as stated (with no administrative removal): when a pass ends, the items
\* it attempted were attempted in the order of its snapshot, and every item
\* enqueued while it ran was not attempted by it and is in the queue, pending,
\* with retries 0.
C21_SnapshotOrderAndLateItems ==
  [][(PassEnds /\ nAdmin = 0)
       => /\ InOrderOf(AttemptedUids(passLog), itemsToSync)
          /\ \A u \in addedDuring :
               /\ u \notin Range(AttemptedUids(passLog))
               /\ u \in Range(syncQueue')
               /\ heap'[u].status = "pending"
               /\ heap'[u].retries = 0]_vars

\* status pending, or failed with retries below maxRetries
MayBeAttempted(it) ==
  it.status = "pending" \/ (it.status = "failed" /\ it.retries < maxRetries)

\* C22: failure isolation.  Every item of the snapshot of a pass is eligible
\* when the pass begins; a failed delivery is followed by the attempt of the
\* next item of the snapshot; when the pass ends every item of the snapshot was
\* attempted exactly once, in order; and retries grows only for the item being
\* attempted, by 1.
C22_FailureIsolation ==
  [][/\ lastReturn'.kind = "started"
          => \A k \in 1..Len(itemsToSync') : MayBeAttempted(heap[itemsToSync'[k]])
     /\ (DeliveryFails /\ idx < Len(itemsToSync))
          => /\ passPc' = "fetch"
             /\ idx' = idx + 1
             /\ attempts'[itemsToSync[idx']] = attempts[itemsToSync[idx']] + 1
     /\ PassEnds => AttemptedUids(passLog) = itemsToSync
     /\ \A u \in Uids :
          heap'[u].retries # heap[u].retries
            => /\ heap'[u].retries = heap[u].retries + 1
               /\ passPc = "fetch"
               /\ itemsToSync[idx] = u]_vars

\* a pass is ending in which the first item failed and the second was delivered
C22_Witness ==
  /\ passPc = "status"
  /\ Len(passLog) = 2
  /\ ~passLog[1].ok
  /\ passLog[2].ok
  /\ AttemptedUids(passLog) = itemsToSync

\* C23 as stated (with no rejected storage write): while a delivery attempt of
\* a pass is in progress, no item that was delivered or evicted before is in
\* the persisted queue.
C23_WrittenBackAfterRemoval ==
  (passPc = "fetch" /\ nWriteFail = 0)
    => \A u \in Uids : fate[u] \in {"delivered", "evicted"} => u \notin StoredUids

\* C24 as stated: a delivery attempt is treated as a failure if and only if
\* the transport failed or the HTTP status is not 2xx; an attempt answered
\* with a 2xx status is a success whatever the response body is.
C24_FailureIffNot2xx ==
  [][\A resp \in Responses :
       FetchDone(resp)
         => /\ ResponseOk(resp) <=> DeliverySucceeds
            /\ ~ResponseOk(resp) <=> DeliveryFails]_vars

\* the {online} events among the events ev
OnlineEvents(ev) == SelectSeq(ev, LAMBDA e : e.type = "online")

\* C25: an {online} event is notified exactly in the steps that change the
\* manager's online value, it carries the new value, and the value is true
\* only for a report with isConnected and isInternetReachable both true.
C25_OnlineEventOnChange ==
  [][/\ OnlineEvents(emitted') # <<>> <=> isOnline' # isOnline
     /\ Len(OnlineEvents(emitted')) <= 1
     /\ \A i \in 1..Len(OnlineEvents(emitted')) : OnlineEvents(emitted')[i].online = isOnline'
     /\ \A conn \in JsBool, reach \in JsBoolOrNull :
          (NetInfoChange(conn, reach) /\ isOnline' = "true")
            => conn = "true" /\ reach = "true"]_vars

\* C26: a notification invokes the listeners of the registry once each, in
\* registration order, and never invokes a listener whose unsubscribe closure
\* has been called, also when it was called by another listener during the
\* notification; the other listeners are still invoked.
C26_ListenerRegistry ==
  /\ \A i \in 1..Len(registry.calls) : ~registry.calls[i].stale
  /\ \A i \in 1..Len(registry.calls), j \in 1..Len(registry.calls) :
       registry.calls[i].fn = registry.calls[j].fn => i = j
  /\ InOrderOf([i \in 1..Len(registry.calls) |-> registry.calls[i].fn], registry.iter)
  /\ registry.pc = "idle"
       => \A f \in Range(registry.iter) :
            f \notin registry.gone => \E i \in 1..Len(registry.calls) : registry.calls[i].fn = f

\* C27: a record of recordAttendance is delivered to the server or placed in
\* the sync queue: offline it is enqueued, and a direct delivery that fails
\* leaves the record queued for a later retry.
C27_RecordDeliveredOrQueued ==
  [][/\ \A id \in IdValues :
          RecordAttendanceOffline(id)
            => /\ Len(syncQueue') = Len(syncQueue) + 1
               /\ heap'[syncQueue'[Len(syncQueue')]].status = "pending"
     /\ \A resp \in Responses, parsed \in BOOLEAN :
          RecordAttendanceDone(resp, parsed)
            => \/ ResponseOk(resp) /\ attendance'.syncStatus = "success"
               \/ Len(syncQueue') > Len(syncQueue)]_vars

\* the items the slot holds
StoredItems ==
  [i \in 1..Len(storedQueue.val) |->
     [id |-> storedQueue.val[i].id, operation |-> storedQueue.val[i].operation,
      retries |-> storedQueue.val[i].retries, status |-> storedQueue.val[i].status,
      lastError |-> storedQueue.val[i].lastError]]

\* C28: loadQueue never raises and leaves the in-memory queue a list: the
\* empty queue when the slot is absent or its value cannot be read or parsed,
\* exactly the stored queue otherwise.
C28_LoadQueue ==
  [][\A readOk \in BOOLEAN :
       InitLoad(readOk)
         => /\ pcInit' = "probing"
            /\ Range(syncQueue') \subseteq Uids
            /\ (~storedQueue.present \/ ~readOk) => syncQueue' = <<>>
            /\ (storedQueue.present /\ readOk)
                 => /\ Len(syncQueue') = Len(storedQueue.val)
                    /\ Items(syncQueue', heap') = StoredItems]_vars

\* a restarted manager could not read a slot that holds items: its queue is empty
C28_Witness ==
  /\ nRestarts = 1
  /\ pcInit = "probing"
  /\ readLost
  /\ storedQueue.present /\ storedQueue.val # <<>>
  /\ syncQueue = <<>>

\* C29 as stated: without a restart no item is delivered (answered with a 2xx
\* status) more than once, and no delivery attempt is started for an item that
\* was delivered or evicted before.
C29_AtMostOnce ==
  [][/\ \A resp \in Responses :
          (FetchDoneAcked(resp) /\ ResponseOk(resp)) => itemsToSync[idx] \notin acked
     /\ \A u \in Uids :
          attempts'[u] > attempts[u]
            => u \notin acked /\ fate[u] \notin {"delivered", "evicted"}]_vars

\* no clearQueue / removeQueueItem call is waiting for its saveQueue
AdminReturned == \A i \in 1..Len(writes) : writes[i].who # "admin"

\* C30 as stated: once removeQueueItem(id) or clearQueue() has returned, the
\* removed items are in neither the in-memory nor the persisted queue, no
\* delivery attempt is started for them, and the pass in progress does not put
\* them back.
C30_RemovalBypassesDelivery ==
  [][AdminReturned
       => \A u \in Uids :
            fate[u] = "removed"
              => /\ u \notin Range(syncQueue) /\ u \notin Range(syncQueue')
                 /\ u \notin StoredUids
                 /\ attempts'[u] = attempts[u]]_vars

====
